---- MODULE Spec2Model ----
(***************************************************************************)
(* Stratum V1 typed messages (v1/messages.rs) and the cgminer API support  *)
(* structures (api/cgminer/support.rs).                                    *)
(*                                                                         *)
(* Integers wider than TLC's own are kept at their real width as tuples of *)
(* 16-bit limbs, least significant limb first: a u32/i32 is 2 limbs, a     *)
(* u64/i64 is 4 limbs, and a mathematical integer is the 5-limb two's      *)
(* complement sign extension of either.  Strings are sequences of          *)
(* one-character strings, byte strings are sequences of 0..255.            *)
(***************************************************************************)
EXTENDS Integers, Sequences, FiniteSets, TLC

VARIABLES
    msg,        \* the typed message at hand (an input of the conversions)
    payload,    \* framing::RequestPayload at hand, or NoPayload
    rpayload,   \* framing::ResponsePayload at hand, or NoPayload
    out,        \* outcome of the last TryFrom<Request>/TryFrom<Response>
    target,     \* the message type the last decode was asked for
    calls,      \* V1Handler: the visit_* calls it received, in order
    envelope,   \* the wire::Message id the last accept was given
    flag,       \* Timestamp.0 (AtomicBool)
    stored,     \* enable() has been called on the flag
    clock,      \* per thread: what SystemTime::now() gave its last get()
    tpc,        \* per thread: position inside get()
    tret,       \* per thread: value returned by the thread's last get()
    tseen,      \* per thread: flag value its get() loaded
    toff,       \* per thread: the flag was off when its get() began and no
                \* enable(true) has run since
    when,       \* StatusInfo.when of the responses created, in order
    responses,  \* MultiResponse.responses
    id,         \* MultiResponse.id
    added,      \* the add_response calls made so far, in order
    jv,         \* json::Value handed to ValueExt
    ires        \* result of the last to_i32 / is_i32

codecVars == <<msg, payload, rpayload, out, target>>
dispatchVars == <<calls, envelope>>
tsVars == <<flag, stored, clock, tpc, tret, tseen, toff, when>>
multiVars == <<responses, id, added>>
extVars == <<jv, ires>>
vars == <<msg, payload, rpayload, out, target, calls, envelope, flag, stored, clock, tpc,
          tret, tseen, toff, when, responses, id, added, jv, ires>>

Min(S) == CHOOSE x \in S : \A y \in S : x <= y

(***************************************************************************)
(* Fixed-width integers                                                    *)
(***************************************************************************)
SignLimb(l) == IF l >= 32768 THEN 65535 ELSE 0

\* mathematical value of a u64 (4 limbs): zero extension
U64Val(x) == x \o <<0>>
\* mathematical value of an i64 (4 limbs): sign extension
I64Val(x) == x \o <<SignLimb(x[4])>>
\* mathematical value of an i32 (2 limbs)
I32Val(y) == <<y[1], y[2], SignLimb(y[2]), SignLimb(y[2]), SignLimb(y[2])>>
\* mathematical value of a u32 (2 limbs)
U32Val(y) == <<y[1], y[2], 0, 0, 0>>
IsNegative(w) == w[5] >= 32768

I32_MAX == <<65535, 32767>>
I32_MIN == <<0, 32768>>

(***************************************************************************)
(* serde_json::Value and serde_json::Number                                *)
(***************************************************************************)
\* Number: N::PosInt(u64), N::NegInt(i64, always negative), N::Float(f64,
\* always finite).  w is the value's integer part (truncated toward zero),
\* half says that the value lies one half further from zero than w.
PosInt(x) == [k |-> "PosInt", w |-> U64Val(x), half |-> FALSE]
NegInt(x) == [k |-> "NegInt", w |-> I64Val(x), half |-> FALSE]
Float(w, half) == [k |-> "Float", w |-> w, half |-> half]

is_u64(n) == n.k = "PosInt"
is_i64(n) == \/ n.k = "NegInt"
             \/ n.k = "PosInt" /\ n.w[4] < 32768
is_f64(n) == n.k = "Float"
as_u64(n) == SubSeq(n.w, 1, 4)
as_i64(n) == SubSeq(n.w, 1, 4)

NoNum == PosInt(<<0, 0, 0, 0>>)
JNull == [t |-> "null", b |-> FALSE, n |-> NoNum, s |-> <<>>, a |-> <<>>]
JBool(b) == [t |-> "bool", b |-> b, n |-> NoNum, s |-> <<>>, a |-> <<>>]
JNum(n) == [t |-> "num", b |-> FALSE, n |-> n, s |-> <<>>, a |-> <<>>]
JStr(s) == [t |-> "str", b |-> FALSE, n |-> NoNum, s |-> s, a |-> <<>>]
JArr(a) == [t |-> "arr", b |-> FALSE, n |-> NoNum, s |-> <<>>, a |-> a]

\* Result<T, E> of a deserialization: err = "none" is Ok(v)
DeOk(v) == [err |-> "none", v |-> <<v>>]
DeErr(e) == [err |-> e, v |-> <<>>]

(***************************************************************************)
(* Wire primitive codecs: HexBytes, HexU32Le (defined in v1/mod.rs), as    *)
(* the specification describes them in sections 3 and 4.1                 *)
(***************************************************************************)
HexLower == <<"0", "1", "2", "3", "4", "5", "6", "7", "8", "9", "a", "b", "c", "d", "e", "f">>
HexUpper == <<"0", "1", "2", "3", "4", "5", "6", "7", "8", "9", "A", "B", "C", "D", "E", "F">>
IsHexDigit(c) == \E i \in 1..16 : HexLower[i] = c \/ HexUpper[i] = c
HexVal(c) == (CHOOSE i \in 1..16 : HexLower[i] = c \/ HexUpper[i] = c) - 1

\* encode: lower-case hex, two digits per byte, no prefix
HexEncode(bytes) ==
    [i \in 1..(2 * Len(bytes)) |->
        IF i % 2 = 1 THEN HexLower[(bytes[(i + 1) \div 2] \div 16) + 1]
                     ELSE HexLower[(bytes[i \div 2] % 16) + 1]]

\* decode: an even-length hex string, case-insensitive; a failure otherwise
HexDecode(s) ==
    IF Len(s) % 2 # 0 \/ \E i \in 1..Len(s) : ~IsHexDigit(s[i])
    THEN DeErr("malformed hex")
    ELSE DeOk([i \in 1..(Len(s) \div 2) |-> 16 * HexVal(s[2 * i - 1]) + HexVal(s[2 * i])])

\* u32::to_le_bytes / u32::from_le_bytes on a 2-limb u32
ToLeBytes(u) == <<u[1] % 256, u[1] \div 256, u[2] % 256, u[2] \div 256>>
FromLeBytes(b) == <<b[1] + 256 * b[2], b[3] + 256 * b[4]>>

\* HexU32Le: the integer's bytes in little-endian order, hex-rendered
HexU32LeEncode(u) == HexEncode(ToLeBytes(u))
HexU32LeDecode(s) ==
    LET d == HexDecode(s)
    IN  IF d.err # "none" THEN d
        ELSE IF Len(d.v[1]) # 4 THEN DeErr("malformed hex")
        ELSE DeOk(FromLeBytes(d.v[1]))

(***************************************************************************)
(* serde: Serialize / Deserialize of the field types through               *)
(* serde_json::to_value / from_value                                       *)
(***************************************************************************)
\* f32: [cls, w, half]; cls is "fin" (w and half give the value), "approx"
\* (the f32 nearest to w), "nan", "inf" or "ninf"
F32(w, half) == [cls |-> "fin", w |-> w, half |-> half]
F32Special(cls) == [cls |-> cls, w |-> <<0, 0, 0, 0, 0>>, half |-> FALSE]

\* a 24-bit significand holds every |w| (+ 1/2) below 2^23
F32Exact(w) ==
    \/ w[2] < 128 /\ w[3] = 0 /\ w[4] = 0 /\ w[5] = 0
    \/ w[2] >= 65408 /\ w[3] = 65535 /\ w[4] = 65535 /\ w[5] = 65535

\* `as f32` of a json number (serde's f32 visitor: visit_u64/i64/f64)
AsF32(n) ==
    IF F32Exact(n.w) THEN F32(n.w, n.half)
    ELSE [cls |-> "approx", w |-> n.w, half |-> FALSE]

\* serde_json's value serializer: a non-finite float becomes Value::Null
SerF32(x) == IF x.cls \in {"fin", "approx"} THEN JNum(Float(x.w, x.half)) ELSE JNull
DeF32(v) == IF v.t = "num" THEN DeOk(AsF32(v.n)) ELSE DeErr("invalid type")

SerBool(b) == JBool(b)
DeBool(v) == IF v.t = "bool" THEN DeOk(v.b) ELSE DeErr("invalid type")

SerString(s) == JStr(s)
DeString(v) == IF v.t = "str" THEN DeOk(v.s) ELSE DeErr("invalid type")

\* usize: a 4-limb u64
SerUsize(x) == JNum(PosInt(x))
DeUsize(v) ==
    IF v.t # "num" THEN DeErr("invalid type")
    ELSE IF v.n.k = "PosInt" THEN DeOk(as_u64(v.n))
    ELSE IF v.n.k = "NegInt" THEN DeErr("invalid value")
    ELSE DeErr("invalid type")

SerHexBytes(b) == JStr(HexEncode(b))
DeHexBytes(v) == IF v.t = "str" THEN HexDecode(v.s) ELSE DeErr("invalid type")

SerHexU32Le(u) == JStr(HexU32LeEncode(u))
DeHexU32Le(v) == IF v.t = "str" THEN HexU32LeDecode(v.s) ELSE DeErr("invalid type")

\* Option<T>: None is <<>>, Some(x) is <<x>>; ss holds the serialization
\* of the value inside, d the deserialization of v as a T
SerOption(o, ss) == IF o = <<>> THEN JNull ELSE ss[1]
DeOption(v, d) ==
    IF v.t = "null" THEN DeOk(<<>>)
    ELSE IF d.err # "none" THEN d ELSE DeOk(<<d.v[1]>>)

\* Vec<T>; ss holds the serialization of each element, ds the
\* deserialization of each element of v as a T
SerVec(ss) == JArr(ss)
DeVec(v, ds) ==
    IF v.t # "arr" THEN DeErr("invalid type")
    ELSE LET bad == {i \in 1..Len(v.a) : ds[i].err # "none"}
         IN  IF bad # {} THEN DeErr(ds[Min(bad)].err)
             ELSE DeOk([i \in 1..Len(v.a) |-> ds[i].v[1]])

\* the positions of a json value a tuple of n elements is read from
Positions(v, n) == 1..(IF Len(v.a) < n THEN Len(v.a) ELSE n)

\* a tuple (struct) of n elements read from a json array by serde_json's
\* visit_array: the elements in order, then no element may be left over;
\* ds holds the deserialization of each of Positions(v, n)
DeTuple(v, n, ds) ==
    IF v.t # "arr" THEN DeErr("invalid type")
    ELSE LET bad == {i \in 1..n : i > Len(v.a) \/ ds[i].err # "none"}
         IN  IF bad # {}
             THEN IF Min(bad) > Len(v.a) THEN DeErr("invalid length")
                  ELSE DeErr(ds[Min(bad)].err)
             ELSE IF Len(v.a) > n THEN DeErr("invalid length")
             ELSE DeOk([i \in 1..n |-> ds[i].v[1]])

(***************************************************************************)
(* The typed message catalog (messages.rs 97-336).  A message is           *)
(* [ty, f]: its type and the tuple of its fields in declaration order.     *)
(***************************************************************************)
RequestTypes == {"Subscribe", "Authorize", "SetDifficulty", "Notify", "Submit"}
ResponseTypes == {"SubscribeResult", "BooleanResult"}

\* the field types of each tuple struct, in declaration order
Subscribe == <<"OptString", "OptExtraNonce1", "OptString", "OptString">>
Subscription == <<"String", "String">>
SubscribeResult == <<"VecSubscription", "ExtraNonce1", "usize">>
BooleanResult == <<"bool">>
Authorize == <<"String", "String">>
SetDifficulty == <<"f32">>
\* mutant of Notify: the clean-jobs flag is not a field
Notify_without_clean_jobs ==
    <<"JobId", "PrevHash", "CoinBase1", "CoinBase2", "MerkleBranch", "Version", "Bits", "Time">>
Notify == <<"JobId", "PrevHash", "CoinBase1", "CoinBase2", "MerkleBranch",
            "Version", "Bits", "Time", "bool">>
Submit == <<"UserName", "JobId", "ExtraNonce2", "Time", "Nonce", "Version">>

Fields(ty) ==
    CASE ty = "Subscribe" -> Subscribe
      [] ty = "SubscribeResult" -> SubscribeResult
      [] ty = "BooleanResult" -> BooleanResult
      [] ty = "Authorize" -> Authorize
      [] ty = "SetDifficulty" -> SetDifficulty
      [] ty = "Notify" -> Notify
      [] ty = "Submit" -> Submit

\* the newtype wrappers serialize as the type they wrap
HexBytesTypes == {"ExtraNonce1", "JobId", "PrevHash", "CoinBase1", "CoinBase2", "ExtraNonce2"}
HexU32LeTypes == {"Version", "Bits", "Time", "Nonce"}

SerSubscription(x) == JArr(<<SerString(x[1]), SerString(x[2])>>)
DeSubscription(v) ==
    DeTuple(v, Len(Subscription), [i \in Positions(v, Len(Subscription)) |-> DeString(v.a[i])])

\* Serialize of a field of type k
SerField(k, x) ==
    CASE k \in {"String", "UserName"} -> SerString(x)
      [] k = "OptString" -> SerOption(x, [i \in 1..Len(x) |-> SerString(x[i])])
      [] k = "OptExtraNonce1" -> SerOption(x, [i \in 1..Len(x) |-> SerHexBytes(x[i])])
      [] k \in HexBytesTypes -> SerHexBytes(x)
      [] k \in HexU32LeTypes -> SerHexU32Le(x)
      [] k = "MerkleBranch" -> SerVec([i \in 1..Len(x) |-> SerHexBytes(x[i])])
      [] k = "VecSubscription" -> SerVec([i \in 1..Len(x) |-> SerSubscription(x[i])])
      [] k = "usize" -> SerUsize(x)
      [] k = "f32" -> SerF32(x)
      [] k = "bool" -> SerBool(x)

\* Deserialize of a field of type k
DeField(k, v) ==
    CASE k \in {"String", "UserName"} -> DeString(v)
      [] k = "OptString" -> DeOption(v, DeString(v))
      [] k = "OptExtraNonce1" -> DeOption(v, DeHexBytes(v))
      [] k \in HexBytesTypes -> DeHexBytes(v)
      [] k \in HexU32LeTypes -> DeHexU32Le(v)
      [] k = "MerkleBranch" -> DeVec(v, [i \in 1..Len(v.a) |-> DeHexBytes(v.a[i])])
      [] k = "VecSubscription" -> DeVec(v, [i \in 1..Len(v.a) |-> DeSubscription(v.a[i])])
      [] k = "usize" -> DeUsize(v)
      [] k = "f32" -> DeF32(v)
      [] k = "bool" -> DeBool(v)

\* mutant of to_value: a one-field struct is flattened to its bare value
to_value_flattened(m) ==
    IF Len(Fields(m.ty)) = 1 THEN SerField(Fields(m.ty)[1], m.f[1])
    ELSE JArr([i \in 1..Len(Fields(m.ty)) |-> SerField(Fields(m.ty)[i], m.f[i])])

\* serde_json::to_value(msg): a tuple struct is an array of its fields, the
\* newtype struct BooleanResult(bool) is the bare bool, and the newtype
\* struct SetDifficulty([f32; 1]) is the one-element array it wraps
to_value(m) ==
    IF m.ty = "BooleanResult" THEN SerField("bool", m.f[1])
    ELSE JArr([i \in 1..Len(Fields(m.ty)) |-> SerField(Fields(m.ty)[i], m.f[i])])

\* serde_json::from_value::<ty>(v)
from_value(ty, v) ==
    IF ty = "BooleanResult"
    THEN LET d == DeField("bool", v)
         IN  IF d.err # "none" THEN d ELSE DeOk([ty |-> ty, f |-> <<d.v[1]>>])
    ELSE LET n == Len(Fields(ty))
             d == DeTuple(v, n, [i \in Positions(v, n) |-> DeField(Fields(ty)[i], v.a[i])])
         IN  IF d.err # "none" THEN d ELSE DeOk([ty |-> ty, f |-> d.v[1]])

(***************************************************************************)
(* The conversion layer (impl_conversion_request, impl_conversion_response)*)
(***************************************************************************)
\* $method of each impl_conversion_request! instance
Method(ty) ==
    CASE ty = "Subscribe" -> "mining.subscribe"
      [] ty = "Authorize" -> "mining.authorize"
      [] ty = "SetDifficulty" -> "mining.set_difficulty"
      [] ty = "Notify" -> "mining.notify"
      [] ty = "Submit" -> "mining.submit"

Ok(v) == [st |-> "Ok", val |-> <<v>>, err |-> "none"]
Err(e) == [st |-> "Err", val |-> <<>>, err |-> e]
Panic == [st |-> "Panic", val |-> <<>>, err |-> "assertion failed"]
NoResult == [st |-> "None", val |-> <<>>, err |-> "none"]

\* impl TryFrom<$request> for framing::RequestPayload
RequestPayloadTryFrom(m) == Ok([method |-> Method(m.ty), params |-> to_value(m)])

\* impl TryFrom<framing::Request> for $request
RequestTryInto(ty, req) ==
    IF req.payload.method # Method(ty) THEN Panic
    ELSE LET d == from_value(ty, req.payload.params)
         IN  IF d.err # "none" THEN Err(d.err) ELSE Ok(d.v[1])

\* mutant of ResponsePayloadTryFrom: the error member is filled in as well
ResponsePayloadTryFrom_with_error(m) == Ok([result |-> <<to_value(m)>>, error |-> <<JNull>>])

\* impl TryFrom<$response> for framing::ResponsePayload
ResponsePayloadTryFrom(m) == Ok([result |-> <<to_value(m)>>, error |-> <<>>])

\* impl TryFrom<&framing::StratumResult> for $response
StratumResultTryInto(ty, result) ==
    LET d == from_value(ty, result)
    IN  IF d.err # "none" THEN Err("Failed to parse response") ELSE Ok(d.v[1])

\* mutant of ResponseTryInto: a missing result is read as a null result
ResponseTryInto_null_default(ty, resp) ==
    IF resp.payload.result = <<>> THEN StratumResultTryInto(ty, JNull)
    ELSE StratumResultTryInto(ty, resp.payload.result[1])

\* impl TryFrom<framing::Response> for $response
ResponseTryInto(ty, resp) ==
    IF resp.payload.result = <<>> THEN Err("No result")
    ELSE StratumResultTryInto(ty, resp.payload.result[1])

(***************************************************************************)
(* Field accessors (messages.rs 106-122, 142-154, 171-179, 189-193,        *)
(* 253-289, 310-334)                                                       *)
(***************************************************************************)
Subscribe_agent_signature(m) == m.f[1]
Subscribe_extra_nonce1(m) == m.f[2]
Subscribe_url(m) == m.f[3]
Subscribe_port(m) == m.f[4]
SubscribeResult_subscriptions(m) == m.f[1]
SubscribeResult_extra_nonce_1(m) == m.f[2]
SubscribeResult_extra_nonce_2_size(m) == m.f[3]
Authorize_name(m) == m.f[1]
Authorize_password(m) == m.f[2]
SetDifficulty_value(m) == m.f[1]
Notify_job_id(m) == m.f[1]
Notify_prev_hash(m) == m.f[2]
Notify_coin_base_1(m) == m.f[3]
Notify_coin_base_2(m) == m.f[4]
Notify_merkle_branch(m) == m.f[5]
Notify_version(m) == m.f[6]
Notify_bits(m) == m.f[7]
Notify_time(m) == m.f[8]
Notify_clean_jobs(m) == m.f[9]
Submit_user_name(m) == m.f[1]
Submit_job_id(m) == m.f[2]
Submit_extra_nonce_2(m) == m.f[3]
\* mutant of Submit_time: the accessor reads the nonce
Submit_time_reads_nonce(m) == m.f[5]
Submit_time(m) == m.f[4]
Submit_nonce(m) == m.f[5]
Submit_version(m) == m.f[6]

(***************************************************************************)
(* Inputs                                                                  *)
(***************************************************************************)
MaxMerkle == 2
MaxSubscriptions == 1

Strings == {<<>>, <<"a", "1">>, <<"w", ".", "Z">>}
F32s == {F32(<<1, 0, 0, 0, 0>>, FALSE), F32(<<0, 0, 0, 0, 0>>, TRUE),
         F32(<<65535, 65535, 65535, 65535, 65535>>, FALSE),
         F32(<<0, 64, 0, 0, 0>>, FALSE),
         F32Special("nan"), F32Special("inf"), F32Special("ninf")}
Usizes == {<<0, 0, 0, 0>>, <<4, 0, 0, 0>>, <<65535, 65535, 65535, 65535>>}

SeqsUpTo(S, n) == UNION {[1..k -> S] : k \in 0..n}
OptionOf(S) == {<<>>} \cup {<<x>> : x \in S}

\* the values of each message type the conversions are tried on
Values(ty) ==
    CASE ty = "Subscribe" ->
            {[ty |-> ty, f |-> <<a, e, u, p>>] :
                a \in OptionOf({<<"a", "1">>}), e \in OptionOf({<<171, 205>>}),
                u \in OptionOf({<<"w", ".", "Z">>}), p \in OptionOf({<<"a", "1">>})}
      [] ty = "SubscribeResult" ->
            {[ty |-> ty, f |-> <<s, e, n>>] :
                s \in SeqsUpTo({<<a, b>> : a \in {<<"a", "1">>}, b \in {<<>>, <<"w", ".", "Z">>}},
                               MaxSubscriptions),
                e \in {<<>>, <<171, 205>>}, n \in Usizes}
      [] ty = "BooleanResult" -> {[ty |-> ty, f |-> <<b>>] : b \in BOOLEAN}
      [] ty = "Authorize" -> {[ty |-> ty, f |-> <<n, p>>] : n \in Strings, p \in Strings}
      [] ty = "SetDifficulty" -> {[ty |-> ty, f |-> <<d>>] : d \in F32s}
      [] ty = "Notify" ->
            {[ty |-> ty, f |-> <<j, <<1, 2, 255>>, <<>>, <<171, 205>>, mb, v, <<65535, 65535>>, t, c>>] :
                j \in {<<>>, <<171, 205>>}, mb \in SeqsUpTo({<<171, 205>>, <<1, 2, 255>>}, MaxMerkle),
                v \in {<<0, 8192>>, <<66, 0>>}, t \in {<<0, 24320>>}, c \in BOOLEAN}
      [] ty = "Submit" ->
            {[ty |-> ty, f |-> <<u, j, e, t, n, v>>] :
                u \in {<<"a", "1">>, <<"w", ".", "Z">>}, j \in {<<171, 205>>},
                e \in {<<>>, <<1, 2, 255>>}, t \in {<<0, 24320>>, <<65535, 65535>>},
                n \in {<<66, 0>>, <<0, 0>>}, v \in {<<0, 8192>>}}

\* json values that are not the encoding of the field they stand in for
Junk == {JNull, JBool(TRUE), JNum(PosInt(<<7, 0, 0, 0>>)), JNum(Float(<<1, 0, 0, 0, 0>>, TRUE)),
         JStr(<<"z", "z">>), JStr(<<"A", "b", "c">>), JStr(<<"0", "1", "A", "b", "c", "D", "e", "F">>),
         JArr(<<>>)}

\* params a peer may send in the place of the array p: p itself, p cut
\* short, p extended, p with one element replaced, or no array at all
Tampered(p) ==
    {p} \cup {JArr(SubSeq(p.a, 1, Len(p.a) - 1)) : x \in {y \in {0} : Len(p.a) > 0}}
        \cup {JArr(Append(p.a, j)) : j \in Junk}
        \cup {JArr([p.a EXCEPT ![i] = j]) : i \in 1..Len(p.a), j \in Junk}
        \cup Junk

WireRequestsOf(ty) ==
    UNION {{[method |-> Method(ty), params |-> q] : q \in Tampered(to_value(m))} :
              m \in Values(ty)}
WireRequests == UNION {WireRequestsOf(ty) : ty \in RequestTypes}

\* the error member of a ResponsePayload (framing::StratumError, an array
\* of code, message and detail)
WireErrors == OptionOf({JArr(<<JNum(PosInt(<<20, 0, 0, 0>>)), JStr(<<"a", "1">>), JNull>>)})
WireResultsOf(ty) == UNION {Tampered(to_value(m)) : m \in Values(ty)}
WireResponses ==
    {[result |-> r, error |-> e] :
        r \in OptionOf(UNION {WireResultsOf(ty) : ty \in ResponseTypes}), e \in WireErrors}
Ids == {<<>>, <<1>>}

(***************************************************************************)
(* Conversions as steps: a frame is built or received, converted, and      *)
(* discarded                                                               *)
(***************************************************************************)
Idle == payload = <<>> /\ rpayload = <<>>

\* a typed request is converted into a RequestPayload
EncodeRequest ==
    /\ Idle
    /\ \E ty \in RequestTypes : \E m \in Values(ty) :
          /\ msg' = <<m>>
          /\ payload' = <<RequestPayloadTryFrom(m).val[1]>>
    /\ out' = NoResult
    /\ target' = "none"
    /\ UNCHANGED <<rpayload, dispatchVars, tsVars, multiVars, extVars>>

\* a request frame arrives from the peer
ReceiveRequest ==
    /\ Idle
    /\ \E p \in WireRequests : payload' = <<p>>
    /\ msg' = <<>>
    /\ out' = NoResult
    /\ target' = "none"
    /\ UNCHANGED <<rpayload, dispatchVars, tsVars, multiVars, extVars>>

\* the request at hand is converted into the message type ty
DecodeRequest ==
    /\ payload # <<>>
    /\ \E ty \in RequestTypes : \E i \in Ids :
          /\ out' = RequestTryInto(ty, [id |-> i, payload |-> payload[1]])
          /\ target' = ty
    /\ UNCHANGED <<msg, payload, rpayload, dispatchVars, tsVars, multiVars, extVars>>

\* a typed result is converted into a ResponsePayload
EncodeResponse ==
    /\ Idle
    /\ \E ty \in ResponseTypes : \E m \in Values(ty) :
          /\ msg' = <<m>>
          /\ rpayload' = <<ResponsePayloadTryFrom(m).val[1]>>
    /\ out' = NoResult
    /\ target' = "none"
    /\ UNCHANGED <<payload, dispatchVars, tsVars, multiVars, extVars>>

\* a response frame arrives from the peer
ReceiveResponse ==
    /\ Idle
    /\ \E p \in WireResponses : rpayload' = <<p>>
    /\ msg' = <<>>
    /\ out' = NoResult
    /\ target' = "none"
    /\ UNCHANGED <<payload, dispatchVars, tsVars, multiVars, extVars>>

\* the response at hand is converted into the result type ty
DecodeResponse ==
    /\ rpayload # <<>>
    /\ \E ty \in ResponseTypes : \E i \in Ids :
          /\ out' = ResponseTryInto(ty, [id |-> i, payload |-> rpayload[1]])
          /\ target' = ty
    /\ UNCHANGED <<msg, payload, rpayload, dispatchVars, tsVars, multiVars, extVars>>

\* the frame and whatever was made of it are dropped
Discard ==
    /\ ~Idle
    /\ msg' = <<>>
    /\ payload' = <<>>
    /\ rpayload' = <<>>
    /\ out' = NoResult
    /\ target' = "none"
    /\ UNCHANGED <<dispatchVars, tsVars, multiVars, extVars>>

Init ==
    /\ msg = <<>>
    /\ payload = <<>>
    /\ rpayload = <<>>
    /\ out = NoResult
    /\ target = "none"
    /\ calls = <<>>
    /\ envelope = <<>>
    /\ flag = TRUE
    /\ stored = FALSE
    /\ clock = <<>>
    /\ tpc = <<>>
    /\ tret = <<>>
    /\ tseen = <<>>
    /\ toff = <<>>
    /\ when = <<>>
    /\ responses = <<>>
    /\ id = 1
    /\ added = <<>>
    /\ jv = JNull
    /\ ires = <<>>

Next ==
    \/ EncodeRequest
    \/ ReceiveRequest
    \/ DecodeRequest
    \/ EncodeResponse
    \/ ReceiveResponse
    \/ DecodeResponse
    \/ Discard

Spec == Init /\ [][Next]_vars

(***************************************************************************)
(* Properties of the conversions                                           *)
(***************************************************************************)
\* the message at hand was encoded and decoded back into its own type
RoundTripped ==
    /\ msg # <<>>
    /\ out.st # "None"
    /\ target = msg[1].ty

Finite(m) == m.ty = "SetDifficulty" => m.f[1].cls = "fin"

\* C1 as stated: for every message type and every value, decoding the
\* encoding of the value succeeds and yields a value equal to it, in the
\* request direction and in the result direction.
C1_RoundTripEveryValue == RoundTripped => out = Ok(msg[1])

\* C1 amended: decoding the encoding of a value succeeds and yields an equal
\* value for every value whose floating-point field is finite (a NaN or an
\* infinite difficulty is encoded as null, which does not decode).
C1_RoundTripFinite == RoundTripped /\ Finite(msg[1]) => out = Ok(msg[1])

C1_Witness ==
    /\ RoundTripped
    /\ target = "SetDifficulty"
    /\ out.st = "Ok"
    /\ SetDifficulty_value(out.val[1]).half

\* the last step converted the request at hand into the type `target`
DecodedRequest == payload # <<>> /\ target \in RequestTypes /\ out.st # "None"
DecodedResponse == rpayload # <<>> /\ target \in ResponseTypes /\ out.st # "None"

\* C2: converting a request whose method tag is not the target type's tag
\* returns an error value; it yields no message and raises no panic.
C2_TagMismatchIsError ==
    DecodedRequest /\ payload[1].method # Method(target) => out.st = "Err"

IsHexString(s) == Len(s) % 2 = 0 /\ \A i \in 1..Len(s) : IsHexDigit(s[i])

\* the json shape of a SubscribeResult, a BooleanResult
WellShapedResult(ty, v) ==
    IF ty = "BooleanResult" THEN v.t = "bool"
    ELSE /\ v.t = "arr"
         /\ Len(v.a) = 3
         /\ v.a[1].t = "arr"
         /\ \A i \in 1..Len(v.a[1].a) :
               LET e == v.a[1].a[i]
               IN  e.t = "arr" /\ Len(e.a) = 2 /\ e.a[1].t = "str" /\ e.a[2].t = "str"
         /\ v.a[2].t = "str"
         /\ IsHexString(v.a[2].s)
         /\ v.a[3].t = "num"
         /\ v.a[3].n.k = "PosInt"

\* C3: a response without a result converts to the error "No result",
\* whatever its error member holds; with a result the outcome is that of
\* deserializing the result: a message on a well-shaped value, a parse error
\* otherwise; no message comes out of a payload without a result.
C3_MissingResult ==
    DecodedResponse =>
        LET r == rpayload[1].result
        IN  /\ r = <<>> => out = Err("No result")
            /\ out.st = "Ok" => r # <<>>
            /\ r # <<>> /\ ~WellShapedResult(target, r[1]) => out = Err("Failed to parse response")
            /\ r # <<>> /\ WellShapedResult(target, r[1]) =>
                  /\ out.st = "Ok"
                  /\ out.val[1].ty = target
                  /\ target = "BooleanResult" => out.val[1].f[1] = r[1].b
                  /\ target = "SubscribeResult" =>
                        /\ Len(SubscribeResult_subscriptions(out.val[1])) = Len(r[1].a[1].a)
                        /\ SubscribeResult_extra_nonce_1(out.val[1]) = HexDecode(r[1].a[2].s).v[1]
                        /\ SubscribeResult_extra_nonce_2_size(out.val[1]) = as_u64(r[1].a[3].n)

C3_Witness ==
    /\ DecodedResponse
    /\ rpayload[1].result = <<>>
    /\ rpayload[1].error # <<>>
    /\ out = Err("No result")

\* the number of fields and the json type of each position, per request type
ParamTypes(ty) ==
    CASE ty = "Subscribe" -> <<{"str", "null"}, {"str", "null"}, {"str", "null"}, {"str", "null"}>>
      [] ty = "Authorize" -> <<{"str"}, {"str"}>>
      [] ty = "SetDifficulty" -> <<{"num"}>>
      [] ty = "Notify" -> <<{"str"}, {"str"}, {"str"}, {"str"}, {"arr"}, {"str"}, {"str"}, {"str"}, {"bool"}>>
      [] ty = "Submit" -> <<{"str"}, {"str"}, {"str"}, {"str"}, {"str"}, {"str"}>>

ShapeMismatch(ty, p) ==
    \/ p.t # "arr"
    \/ Len(p.a) # Len(ParamTypes(ty))
    \/ \E i \in 1..Len(p.a) : p.a[i].t \notin ParamTypes(ty)[i]

\* C4: a correctly tagged request whose params array is shorter or longer
\* than the type's field count, or holds an element of the wrong json type
\* for its position, converts to an error: never a panic, never a message.
C4_ArrayShapeGuard ==
    DecodedRequest /\ payload[1].method = Method(target)
                   /\ ShapeMismatch(target, payload[1].params)
        => out.st = "Err" /\ out.val = <<>>

C4_Witness ==
    /\ DecodedRequest
    /\ target = "Notify"
    /\ payload[1].method = Method(target)
    /\ payload[1].params.t = "arr"
    /\ Len(payload[1].params.a) = 8
    /\ out = Err("invalid length")

\* C6: every ResponsePayload built from a result message carries a result
\* and no error.
C6_EncodedResponseHasResultOnly ==
    msg # <<>> /\ rpayload # <<>> =>
        /\ rpayload[1].result # <<>>
        /\ rpayload[1].error = <<>>

C6_Witness ==
    /\ msg # <<>>
    /\ rpayload # <<>>
    /\ msg[1].ty = "SubscribeResult"
    /\ rpayload[1].result # <<>>

\* the params array each request type is documented to encode to
ExpectedParams(m) ==
    CASE m.ty = "Subscribe" ->
            <<IF Subscribe_agent_signature(m) = <<>> THEN JNull
              ELSE SerString(Subscribe_agent_signature(m)[1]),
              IF Subscribe_extra_nonce1(m) = <<>> THEN JNull
              ELSE SerHexBytes(Subscribe_extra_nonce1(m)[1]),
              IF Subscribe_url(m) = <<>> THEN JNull ELSE SerString(Subscribe_url(m)[1]),
              IF Subscribe_port(m) = <<>> THEN JNull ELSE SerString(Subscribe_port(m)[1])>>
      [] m.ty = "Authorize" ->
            <<SerString(Authorize_name(m)), SerString(Authorize_password(m))>>
      [] m.ty = "SetDifficulty" -> <<SerF32(SetDifficulty_value(m))>>
      [] m.ty = "Notify" ->
            <<SerHexBytes(Notify_job_id(m)), SerHexBytes(Notify_prev_hash(m)),
              SerHexBytes(Notify_coin_base_1(m)), SerHexBytes(Notify_coin_base_2(m)),
              JArr([i \in 1..Len(Notify_merkle_branch(m)) |-> SerHexBytes(Notify_merkle_branch(m)[i])]),
              SerHexU32Le(Notify_version(m)), SerHexU32Le(Notify_bits(m)),
              SerHexU32Le(Notify_time(m)), SerBool(Notify_clean_jobs(m))>>
      [] m.ty = "Submit" ->
            <<SerString(Submit_user_name(m)), SerHexBytes(Submit_job_id(m)),
              SerHexBytes(Submit_extra_nonce_2(m)), SerHexU32Le(Submit_time(m)),
              SerHexU32Le(Submit_nonce(m)), SerHexU32Le(Submit_version(m))>>

ExpectedMethod(ty) ==
    CASE ty = "Subscribe" -> "mining.subscribe"
      [] ty = "Authorize" -> "mining.authorize"
      [] ty = "SetDifficulty" -> "mining.set_difficulty"
      [] ty = "Notify" -> "mining.notify"
      [] ty = "Submit" -> "mining.submit"

\* what the accessors of a decoded message return, read off the params
\* array it was decoded from
AccessorsReadPositions(m, a) ==
    CASE m.ty = "Subscribe" ->
            /\ Subscribe_agent_signature(m) = IF a[1].t = "null" THEN <<>> ELSE <<a[1].s>>
            /\ Subscribe_extra_nonce1(m) = IF a[2].t = "null" THEN <<>> ELSE HexDecode(a[2].s).v
            /\ Subscribe_url(m) = IF a[3].t = "null" THEN <<>> ELSE <<a[3].s>>
            /\ Subscribe_port(m) = IF a[4].t = "null" THEN <<>> ELSE <<a[4].s>>
      [] m.ty = "Authorize" ->
            /\ Authorize_name(m) = a[1].s
            /\ Authorize_password(m) = a[2].s
      [] m.ty = "SetDifficulty" -> SetDifficulty_value(m) = AsF32(a[1].n)
      [] m.ty = "Notify" ->
            /\ Notify_job_id(m) = HexDecode(a[1].s).v[1]
            /\ Notify_prev_hash(m) = HexDecode(a[2].s).v[1]
            /\ Notify_coin_base_1(m) = HexDecode(a[3].s).v[1]
            /\ Notify_coin_base_2(m) = HexDecode(a[4].s).v[1]
            /\ Notify_merkle_branch(m) = [i \in 1..Len(a[5].a) |-> HexDecode(a[5].a[i].s).v[1]]
            /\ Notify_version(m) = HexU32LeDecode(a[6].s).v[1]
            /\ Notify_bits(m) = HexU32LeDecode(a[7].s).v[1]
            /\ Notify_time(m) = HexU32LeDecode(a[8].s).v[1]
            /\ Notify_clean_jobs(m) = a[9].b
      [] m.ty = "Submit" ->
            /\ Submit_user_name(m) = a[1].s
            /\ Submit_job_id(m) = HexDecode(a[2].s).v[1]
            /\ Submit_extra_nonce_2(m) = HexDecode(a[3].s).v[1]
            /\ Submit_time(m) = HexU32LeDecode(a[4].s).v[1]
            /\ Submit_nonce(m) = HexU32LeDecode(a[5].s).v[1]
            /\ Submit_version(m) = HexU32LeDecode(a[6].s).v[1]

\* C7: an encoded request carries its type's method tag and a params array
\* holding the wire encoding of field i at position i, in the documented
\* order; SetDifficulty encodes as a one-element array, not a bare number;
\* and each accessor of a decoded message returns the value at its position.
C7_PositionalEncoding ==
    /\ msg # <<>> /\ payload # <<>> =>
          /\ payload[1].method = ExpectedMethod(msg[1].ty)
          /\ payload[1].params.t = "arr"
          /\ payload[1].params.a = ExpectedParams(msg[1])
          /\ msg[1].ty = "SetDifficulty" => Len(payload[1].params.a) = 1
    /\ DecodedRequest /\ out.st = "Ok" =>
          /\ out.val[1].ty = target
          /\ AccessorsReadPositions(out.val[1], payload[1].params.a)

C7_Witness ==
    /\ DecodedRequest
    /\ msg = <<>>
    /\ out.st = "Ok"
    /\ target = "Submit"
    /\ Submit_time(out.val[1]) # Submit_nonce(out.val[1])
    /\ Submit_nonce(out.val[1]) # Submit_version(out.val[1])
    /\ payload[1].params.a[2].s = <<"0", "1", "A", "b", "c", "D", "e", "F">>
    /\ Submit_job_id(out.val[1]) = <<1, 171, 205, 239>>

(***************************************************************************)
(* The dispatch layer: impl wire::Payload<V1Protocol> for $request         *)
(* (messages.rs 45-49)                                                     *)
(***************************************************************************)
MaxCalls == 2

\* mutant of HandlerFn: Submit was instantiated with Notify's handler method
HandlerFn_submit_visits_notify(ty) ==
    CASE ty = "Subscribe" -> "visit_subscribe"
      [] ty = "Authorize" -> "visit_authorize"
      [] ty = "SetDifficulty" -> "visit_set_difficulty"
      [] ty = "Notify" -> "visit_notify"
      [] ty = "Submit" -> "visit_notify"

\* $handler_fn of each impl_conversion_request! instance
HandlerFn(ty) ==
    CASE ty = "Subscribe" -> "visit_subscribe"
      [] ty = "Authorize" -> "visit_authorize"
      [] ty = "SetDifficulty" -> "visit_set_difficulty"
      [] ty = "Notify" -> "visit_notify"
      [] ty = "Submit" -> "visit_submit"

\* wire::Message<V1Protocol>: the envelope a message arrived in
Envelopes == {[id |-> i] : i \in Ids}

\* accept(&self, msg, handler): handler.$handler_fn(msg, self), on a handler
\* that records the calls it receives
accept(self, m, handler) ==
    Append(handler, [fn |-> HandlerFn(self.ty), msg |-> m, payload |-> self])

Accept(ty) ==
    /\ msg # <<>>
    /\ msg[1].ty = ty
    /\ Len(calls) < MaxCalls
    /\ \E e \in Envelopes :
          /\ calls' = accept(msg[1], e, calls)
          /\ envelope' = <<e>>
    /\ UNCHANGED <<codecVars, tsVars, multiVars, extVars>>

AcceptSubscribe == Accept("Subscribe")
AcceptAuthorize == Accept("Authorize")
AcceptSetDifficulty == Accept("SetDifficulty")
AcceptNotify == Accept("Notify")
AcceptSubmit == Accept("Submit")

\* a typed request message and a handler that has received nothing yet
InitDispatch ==
    /\ \E ty \in RequestTypes : msg \in {<<m>> : m \in Values(ty)}
    /\ payload = <<>>
    /\ rpayload = <<>>
    /\ out = NoResult
    /\ target = "none"
    /\ calls = <<>>
    /\ envelope = <<>>
    /\ flag = TRUE
    /\ stored = FALSE
    /\ clock = <<>>
    /\ tpc = <<>>
    /\ tret = <<>>
    /\ tseen = <<>>
    /\ toff = <<>>
    /\ when = <<>>
    /\ responses = <<>>
    /\ id = 1
    /\ added = <<>>
    /\ jv = JNull
    /\ ires = <<>>

NextDispatch ==
    \/ AcceptSubscribe
    \/ AcceptAuthorize
    \/ AcceptSetDifficulty
    \/ AcceptNotify
    \/ AcceptSubmit

SpecDispatch == InitDispatch /\ [][NextDispatch]_vars

\* the handler method documented for each variant
DocumentedVisit(ty) ==
    CASE ty = "Subscribe" -> "visit_subscribe"
      [] ty = "Authorize" -> "visit_authorize"
      [] ty = "SetDifficulty" -> "visit_set_difficulty"
      [] ty = "Notify" -> "visit_notify"
      [] ty = "Submit" -> "visit_submit"

\* C5: one call of accept invokes exactly one handler method, once: the
\* method of the message's variant, with the envelope it was given and the
\* message unmodified; the message itself is left unchanged.
C5_DispatchTotality ==
    [][/\ calls' = Append(calls, [fn |-> DocumentedVisit(msg[1].ty),
                                  msg |-> envelope'[1],
                                  payload |-> msg[1]])
       /\ msg' = msg]_vars

C5_Witness ==
    /\ Len(calls) = 2
    /\ msg[1].ty = "Submit"
    /\ calls[1].fn = "visit_submit"
    /\ calls[2].fn = "visit_submit"
    /\ calls[1].msg # calls[2].msg
    /\ calls[2].payload = msg[1]

(***************************************************************************)
(* Timestamp (support.rs 38-62) and Response::create_status_info           *)
(* (support.rs 117-131)                                                    *)
(***************************************************************************)
NumThreads == 2
Threads == 1..NumThreads

\* SystemTime::now(): before the epoch, or a number of seconds after it (u64)
Clocks == {[pre |-> TRUE, secs |-> <<0, 0, 0, 0>>],
           [pre |-> FALSE, secs |-> <<0, 0, 0, 0>>],
           [pre |-> FALSE, secs |-> <<37760, 26890, 0, 0>>],
           [pre |-> FALSE, secs |-> <<65535, 65535, 0, 0>>],
           [pre |-> FALSE, secs |-> <<5, 0, 1, 0>>]}

\* no reading taken
NoClock == [pre |-> TRUE, secs |-> <<0, 0, 0, 0>>]

U32_ZERO == <<0, 0>>

\* `duration.as_secs() as u32`: the low 32 bits of the u64
AsU32(secs) == <<secs[1], secs[2]>>

\* mutant of TakesClock: the flag is not consulted
TakesClock_always(seen) == TRUE

\* `if self.0.load(Ordering::Relaxed)`: the clock is read iff the flag was
\* seen on
TakesClock(seen) == seen

\* duration_since(UNIX_EPOCH).map(|d| d.as_secs() as u32).unwrap_or(0)
ClockValue(now) == IF now.pre THEN U32_ZERO ELSE AsU32(now.secs)

\* the value get() returns having loaded `seen` from the flag, with
\* SystemTime::now() giving `now`
GetValue(seen, now) == IF TakesClock(seen) THEN ClockValue(now) ELSE U32_ZERO

ThreadIdle == [at |-> "idle", in |-> "none"]

\* Timestamp::enable(enable): self.0.store(enable, Relaxed)
Enable ==
    /\ \E b \in BOOLEAN :
          /\ flag' = b
          /\ stored' = TRUE
          /\ toff' = IF b THEN [t \in Threads |-> FALSE] ELSE toff
    /\ UNCHANGED <<clock, tpc, tret, tseen, when>>
    /\ UNCHANGED <<codecVars, dispatchVars, multiVars, extVars>>

\* a thread enters get(), directly or through create_status_info
GetCall(t) ==
    /\ tpc[t].at = "idle"
    /\ \E c \in {"get", "create_status_info"} : tpc' = [tpc EXCEPT ![t] = [at |-> "called", in |-> c]]
    /\ toff' = [toff EXCEPT ![t] = ~flag]
    /\ UNCHANGED <<flag, stored, clock, tret, tseen, when>>
    /\ UNCHANGED <<codecVars, dispatchVars, multiVars, extVars>>

\* self.0.load(Relaxed)
GetLoad(t) ==
    /\ tpc[t].at = "called"
    /\ tseen' = [tseen EXCEPT ![t] = flag]
    /\ tpc' = [tpc EXCEPT ![t].at = "loaded"]
    /\ UNCHANGED <<flag, stored, clock, tret, toff, when>>
    /\ UNCHANGED <<codecVars, dispatchVars, multiVars, extVars>>

\* the rest of get(): SystemTime::now() is read only if the flag was seen
\* on; inside create_status_info the value becomes the status' `when`
GetReturn(t) ==
    /\ tpc[t].at = "loaded"
    /\ \E now \in (IF TakesClock(tseen[t]) THEN Clocks ELSE {NoClock}) :
          /\ clock' = [clock EXCEPT ![t] = now]
          /\ tret' = [tret EXCEPT ![t] = <<GetValue(tseen[t], now)>>]
          /\ when' = IF tpc[t].in = "create_status_info"
                     THEN <<[when |-> GetValue(tseen[t], now), off |-> toff[t]]>>
                     ELSE when
    /\ tpc' = [tpc EXCEPT ![t] = [at |-> "returned", in |-> tpc[t].in]]
    /\ UNCHANGED <<flag, stored, tseen, toff>>
    /\ UNCHANGED <<codecVars, dispatchVars, multiVars, extVars>>

\* the caller goes on; the locals of the call are gone
GetDone(t) ==
    /\ tpc[t].at = "returned"
    /\ tpc' = [tpc EXCEPT ![t] = ThreadIdle]
    /\ tret' = [tret EXCEPT ![t] = <<>>]
    /\ tseen' = [tseen EXCEPT ![t] = TRUE]
    /\ clock' = [clock EXCEPT ![t] = NoClock]
    /\ toff' = [toff EXCEPT ![t] = FALSE]
    /\ UNCHANGED <<flag, stored, when>>
    /\ UNCHANGED <<codecVars, dispatchVars, multiVars, extVars>>

Call == \E t \in Threads : GetCall(t)
Load == \E t \in Threads : GetLoad(t)
Return == \E t \in Threads : GetReturn(t)
Done == \E t \in Threads : GetDone(t)

\* Timestamp::new(): the flag is on
InitTimestamp ==
    /\ msg = <<>>
    /\ payload = <<>>
    /\ rpayload = <<>>
    /\ out = NoResult
    /\ target = "none"
    /\ calls = <<>>
    /\ envelope = <<>>
    /\ flag = TRUE
    /\ stored = FALSE
    /\ clock = [t \in Threads |-> NoClock]
    /\ tpc = [t \in Threads |-> ThreadIdle]
    /\ tret = [t \in Threads |-> <<>>]
    /\ tseen = [t \in Threads |-> TRUE]
    /\ toff = [t \in Threads |-> FALSE]
    /\ when = <<>>
    /\ responses = <<>>
    /\ id = 1
    /\ added = <<>>
    /\ jv = JNull
    /\ ires = <<>>

NextTimestamp == Enable \/ Call \/ Load \/ Return \/ Done

SpecTimestamp == InitTimestamp /\ [][NextTimestamp]_vars

\* what holds of a get() that has just returned in thread t, whatever the
\* clock: 0 if it saw the flag off, 0 if the flag was off when it began and
\* no enable(true) ran before it returned, 0 if the clock is before the epoch
ReturnedZeroWhenOff(t) ==
    /\ ~tseen[t] => tret[t] = <<U32_ZERO>>
    /\ toff[t] => tret[t] = <<U32_ZERO>>
    /\ tseen[t] /\ clock[t].pre => tret[t] = <<U32_ZERO>>

\* C8 as stated: the flag starts on; a get() that sees the flag off, or that
\* begins after enable(false) with no later enable(true), returns 0, and so
\* does the `when` of a status created while the flag is off; a get() with
\* the flag on returns the current Unix time in seconds, or 0 before the epoch.
C8_TimestampSwitch ==
    /\ ~stored => flag
    /\ \A t \in Threads : tpc[t].at = "returned" =>
          /\ ReturnedZeroWhenOff(t)
          /\ tseen[t] /\ ~clock[t].pre => U32Val(tret[t][1]) = U64Val(clock[t].secs)
    /\ when # <<>> /\ when[1].off => when[1].when = U32_ZERO

\* C8 amended: as stated, except that a get() with the flag on returns the
\* low 32 bits of the current Unix time in seconds (the time itself only
\* while it is below 2^32), or 0 before the epoch.
C8_TimestampSwitchTruncated ==
    /\ ~stored => flag
    /\ \A t \in Threads : tpc[t].at = "returned" =>
          /\ ReturnedZeroWhenOff(t)
          /\ tseen[t] /\ ~clock[t].pre =>
                /\ tret[t][1][1] = clock[t].secs[1]
                /\ tret[t][1][2] = clock[t].secs[2]
                /\ (clock[t].secs[3] = 0 /\ clock[t].secs[4] = 0
                        => U32Val(tret[t][1]) = U64Val(clock[t].secs))
    /\ when # <<>> /\ when[1].off => when[1].when = U32_ZERO

\* a status is created with the flag off throughout while another thread
\* has just read a real time
C8_Witness ==
    /\ when # <<>>
    /\ when[1].off
    /\ when[1].when = U32_ZERO
    /\ tpc[1].at = "returned"
    /\ tpc[1].in = "create_status_info"
    /\ toff[1]
    /\ tpc[2].at = "returned"
    /\ tseen[2]
    /\ tret[2] = <<<<37760, 26890>>>>
    /\ ~flag

(***************************************************************************)
(* MultiResponse (support.rs 166-186)                                      *)
(***************************************************************************)
MaxAdds == 3

Names == {"summary", "devs", "pools"}
ResponseValues == {JNull, JNum(PosInt(<<7, 0, 0, 0>>)), JArr(<<JBool(TRUE)>>)}

\* HashMap::insert(k, v) on a map held as a function from its keys
Insert(map, k, v) == [x \in (DOMAIN map) \cup {k} |-> IF x = k THEN v ELSE map[x]]

\* mutant of add_response_map: a response under a known name is pushed onto
\* that name's array
add_response_map_pushing(map, name, response) ==
    IF name \in DOMAIN map
    THEN Insert(map, name, JArr(Append(map[name].a, response)))
    ELSE Insert(map, name, JArr(<<response>>))

\* self.responses.insert(name.to_string(), json::Value::Array(vec![response]))
add_response_map(map, name, response) == Insert(map, name, JArr(<<response>>))

\* MultiResponse::add_response(&mut self, name, response)
add_response ==
    /\ Len(added) < MaxAdds
    /\ \E name \in Names : \E response \in ResponseValues :
          /\ responses' = add_response_map(responses, name, response)
          /\ added' = Append(added, [name |-> name, response |-> response])
    /\ UNCHANGED id
    /\ UNCHANGED <<codecVars, dispatchVars, tsVars, extVars>>

\* MultiResponse::new()
InitMulti ==
    /\ msg = <<>>
    /\ payload = <<>>
    /\ rpayload = <<>>
    /\ out = NoResult
    /\ target = "none"
    /\ calls = <<>>
    /\ envelope = <<>>
    /\ flag = TRUE
    /\ stored = FALSE
    /\ clock = <<>>
    /\ tpc = <<>>
    /\ tret = <<>>
    /\ tseen = <<>>
    /\ toff = <<>>
    /\ when = <<>>
    /\ responses = <<>>
    /\ id = 1
    /\ added = <<>>
    /\ jv = JNull
    /\ ires = <<>>

NextMulti == add_response

SpecMulti == InitMulti /\ [][NextMulti]_vars

\* the calls made with the name n, by position in `added`
CallsWith(n) == {i \in 1..Len(added) : added[i].name = n}
Max(S) == CHOOSE x \in S : \A y \in S : x >= y

\* C9: after any sequence of add_response calls the container holds exactly
\* one entry per distinct name added, each entry is the one-element array of
\* the response of the last call made with that name, and id stays 1.
C9_MultiResponseAccumulation ==
    /\ DOMAIN responses = {added[i].name : i \in 1..Len(added)}
    /\ \A n \in DOMAIN responses :
          /\ responses[n].t = "arr"
          /\ responses[n].a = <<added[Max(CallsWith(n))].response>>
    /\ id = 1

\* a name was added twice with different responses, another name once
C9_Witness ==
    /\ Len(added) = 3
    /\ added[1].name = "devs"
    /\ added[2].name = "pools"
    /\ added[3].name = "devs"
    /\ added[1].response # added[3].response
    /\ DOMAIN responses = {"devs", "pools"}
    /\ responses["devs"].a = <<added[3].response>>
    /\ responses["pools"].a = <<added[2].response>>

(***************************************************************************)
(* ValueExt for json::Value (support.rs 64-91)                             *)
(***************************************************************************)
\* `number as i32` of a u64 or an i64: the low 32 bits
AsI32(w) == <<w[1], w[2]>>

\* w is the value of some i32
FitsI32(w) == I32Val(AsI32(w)) = w

\* `number as i32` of an f64, as the set of results the build may give: the
\* integer part when it is in range; out of range the saturated bound
\* (rustc from 1.45) or, the cast being undefined before that, what the
\* target's conversion instruction leaves (x86: i32::MIN)
F64AsI32(n) ==
    IF FitsI32(n.w) THEN {AsI32(n.w)}
    ELSE IF IsNegative(n.w) THEN {I32_MIN}
    ELSE {I32_MAX, I32_MIN}

\* ValueExt::to_i32: the set of values the call may return, None as <<>>
to_i32(v) ==
    IF v.t = "num" /\ is_u64(v.n) THEN {<<AsI32(U64Val(as_u64(v.n)))>>}
    ELSE IF v.t = "num" /\ is_i64(v.n) THEN {<<AsI32(I64Val(as_i64(v.n)))>>}
    ELSE IF v.t = "num" /\ is_f64(v.n) THEN {<<r>> : r \in F64AsI32(v.n)}
    ELSE {<<>>}

\* ValueExt::is_i32: self.to_i32().is_some()
is_i32(v) == {r # <<>> : r \in to_i32(v)}

SampleLimbs == {0, 1, 32767, 32768, 65535}
JsonNumbers ==
    {PosInt(<<a, b, c, d>>) : a \in {0, 65535}, b \in SampleLimbs, c \in {0, 1, 65535}, d \in {0, 32768}}
        \cup {NegInt(<<a, b, c, d>>) : a \in {0, 65535}, b \in SampleLimbs, c \in {0, 65535}, d \in {32768, 65535}}
        \cup {Float(<<a, b, c, c, c>>, h) : a \in {0, 7}, b \in SampleLimbs, c \in {0, 65535}, h \in BOOLEAN}
JsonValues ==
    {JNum(n) : n \in JsonNumbers}
        \cup {JNull, JBool(TRUE), JBool(FALSE), JStr(<<"1">>), JStr(<<>>), JArr(<<>>),
              JArr(<<JNum(PosInt(<<1, 0, 0, 0>>))>>)}

\* value.to_i32()
ToI32 ==
    /\ \E v \in JsonValues : \E r \in to_i32(v) :
          /\ jv' = v
          /\ ires' = <<[op |-> "to_i32", some |-> r # <<>>, n |-> IF r = <<>> THEN I32_MIN ELSE r[1]]>>
    /\ UNCHANGED <<codecVars, dispatchVars, tsVars, multiVars>>

\* value.is_i32()
IsI32 ==
    /\ \E v \in JsonValues : \E r \in is_i32(v) :
          /\ jv' = v
          /\ ires' = <<[op |-> "is_i32", some |-> r, n |-> I32_MIN]>>
    /\ UNCHANGED <<codecVars, dispatchVars, tsVars, multiVars>>

InitValueExt ==
    /\ msg = <<>>
    /\ payload = <<>>
    /\ rpayload = <<>>
    /\ out = NoResult
    /\ target = "none"
    /\ calls = <<>>
    /\ envelope = <<>>
    /\ flag = TRUE
    /\ stored = FALSE
    /\ clock = <<>>
    /\ tpc = <<>>
    /\ tret = <<>>
    /\ tseen = <<>>
    /\ toff = <<>>
    /\ when = <<>>
    /\ responses = <<>>
    /\ id = 1
    /\ added = <<>>
    /\ jv = JNull
    /\ ires = <<>>

NextValueExt == ToI32 \/ IsI32

SpecValueExt == InitValueExt /\ [][NextValueExt]_vars

\* jv is a json number that is an integer (u64- or i64-valued)
IsIntegerNumber == jv.t = "num" /\ jv.n.k \in {"PosInt", "NegInt"}

\* C10: on an integer json number to_i32 returns Some(n) only when n equals
\* the number's value, and is_i32 is true exactly for the numbers that fit a
\* 32-bit signed integer (no wrapping modulo 2^32); on a json value that is
\* not a number to_i32 returns None and is_i32 is false.
C10_ToI32ValuePreserving ==
    ires # <<>> =>
        /\ IsIntegerNumber /\ ires[1].op = "to_i32" /\ ires[1].some
              => I32Val(ires[1].n) = jv.n.w
        /\ IsIntegerNumber /\ ires[1].op = "is_i32"
              => (ires[1].some <=> FitsI32(jv.n.w))
        /\ jv.t # "num" => ~ires[1].some

====
